---- MODULE Spec2Model ----
(***************************************************************************)
(* Model of app.py, the movie recommender: text normalisation, the fuzzy   *)
(* title resolver, the similarity ranker with its adaptive threshold, and  *)
(* the session state written by the three buttons of the page.             *)
(*                                                                         *)
(* Text is a sequence of one-character strings.  A similarity score is an  *)
(* integer number of 1/100000ths (0.12 is 12000), so that the rounding of  *)
(* the returned percentage to two decimals is a real conversion; the mean  *)
(* and the threshold are compared exactly (floating-point error is not     *)
(* modelled).  A returned percentage is a number of 1/100ths of a percent. *)
(* The library calls (rapidfuzz's extractOne, sklearn's cosine_similarity) *)
(* are the environment: `fuzz` holds what extractOne answers under each    *)
(* scorer (any candidate with any score of FuzzGrid, or nothing), and      *)
(* `vectors` holds, for each entry, the row cosine_similarity computes.    *)
(* `request` holds the arguments of a direct call of robust_recommend,     *)
(* `ret` the record of the latest call and `last` the latest operation.    *)
(***************************************************************************)
EXTENDS Integers, Sequences, FiniteSets, TLC

VARIABLES movies, vectors, fuzz, request, search_input, selected_genre, ret, last

vars == <<movies, vectors, fuzz, request, search_input, selected_genre, ret, last>>

(* ------------------------------ bounds -------------------------------- *)

\* largest enumerated catalog of the ranking specification
MaxCatalog == 4
\* largest enumerated top_n (the default, 10, is always tried too)
MaxTopN == 3
\* largest catalog of the search specification
MaxTitles == 2
\* size of the large catalog, which exceeds the pool window
BigN == 32

(* ------------------------- program constants -------------------------- *)

PoolSize == 30
Floor == 12000
MeanNum == 4
MeanDen == 5
WRatioGate == 80
PartialGate == 85
DefaultTopN == 10
One == 100000

(* ------------------------------- text --------------------------------- *)

LowerLetters == {"a", "b", "c", "d", "e", "f"}

Min(a, b) == IF a <= b THEN a ELSE b

\* str.lower() on one character
LowerChar(c) ==
  CASE c = "A" -> "a"
    [] c = "B" -> "b"
    [] OTHER -> c

\* str.lower()
str_lower(text) == [k \in 1..Len(text) |-> LowerChar(text[k])]

RECURSIVE lstrip(_)
lstrip(text) ==
  IF text = <<>> THEN <<>>
  ELSE IF Head(text) = " " THEN lstrip(Tail(text))
  ELSE text

RECURSIVE rstrip(_)
rstrip(text) ==
  IF text = <<>> THEN <<>>
  ELSE IF text[Len(text)] = " " THEN rstrip(SubSeq(text, 1, Len(text) - 1))
  ELSE text

\* str.strip()
str_strip(text) == rstrip(lstrip(text))

\* re.sub(r"[^a-z\s]", " ", text)
sub_nonletters(text) ==
  [k \in 1..Len(text) |->
     IF text[k] \in LowerLetters \/ text[k] = " " THEN text[k] ELSE " "]

\* re.sub(r"\s+", " ", text)
RECURSIVE sub_spaces(_)
sub_spaces(text) ==
  IF Len(text) <= 1 THEN text
  ELSE IF text[1] = " " /\ text[2] = " " THEN sub_spaces(Tail(text))
  ELSE <<text[1]>> \o sub_spaces(Tail(text))

normalize_text(text) == str_strip(sub_spaces(sub_nonletters(str_lower(text))))

\* movies["title"].str.lower().str.strip()
clean_title(title) == str_strip(str_lower(title))

title_list == [i \in 1..Len(movies) |-> clean_title(movies[i].title)]

InTitleList(name) == \E i \in 1..Len(movies) : title_list[i] = name

\* movies[movies["clean_title"] == matched].index[0]
FirstIndex(matched) ==
  CHOOSE i \in 1..Len(movies) :
    /\ title_list[i] = matched
    /\ \A j \in 1..(i - 1) : title_list[j] # matched

\* the value None, which is no text
None == <<"None">>

(* --------------------------- fuzzy resolver --------------------------- *)

\* what process.extractOne returns: nothing, or a candidate and its score
NoMatch == [index |-> 0, score |-> 0]

\* the second pass was not run
NotConsulted == [index |-> -1, score |-> 0]

FuzzGrid == {79, 80, 84, 85}

ExtractOneOutcomes ==
  {NoMatch} \cup {[index |-> k, score |-> s] : k \in 1..Len(movies), s \in FuzzGrid}

\* the answers of the two passes, fixed for a session
FuzzAnswers ==
  {[w |-> w, p |-> p] : w \in ExtractOneOutcomes, p \in ExtractOneOutcomes}

\* `match and match[1] >= 80`
WRatioAccepts(match) == match.index >= 1 /\ match.score >= WRatioGate

\* `match and match[1] >= 85`, with the gate of the first pass
PartialAcceptsLow(match) == match.index >= 1 /\ match.score >= WRatioGate

\* `match and match[1] >= 85`
PartialAccepts(match) == match.index >= 1 /\ match.score >= PartialGate

\* smart_match_movie: w and p are what extractOne returns under WRatio and
\* under partial_ratio; p is read only when the first pass does not accept
smart_match_movie(user_input, w, p) ==
  LET query == str_strip(str_lower(user_input))
  IN  IF WRatioAccepts(w)
        THEN [query |-> query, w |-> w, p |-> NotConsulted, via |-> 1,
              matched |-> title_list[w.index]]
      ELSE IF PartialAccepts(p)
        THEN [query |-> query, w |-> w, p |-> p, via |-> 2,
              matched |-> title_list[p.index]]
      ELSE [query |-> query, w |-> w, p |-> p, via |-> 0, matched |-> None]

(* ------------------------------ ranker -------------------------------- *)

\* cosine_similarity(vectors[idx], vectors)[0]
cosine_similarity(idx) == vectors[idx]

\* the self score left as computed
ZeroSelfSkipped(scores, idx) == scores

\* scores[idx] = 0.0
ZeroSelf(scores, idx) ==
  [j \in 1..Len(scores) |-> IF j = idx THEN 0 ELSE scores[j]]

\* position of entry j in ascending order, equal scores in index order (the
\* order numpy's sort gives short arrays; no property below rests on it)
AscRank(scores, j) ==
  Cardinality({k \in 1..Len(scores) :
                 \/ scores[k] < scores[j]
                 \/ scores[k] = scores[j] /\ k < j}) + 1

\* np.argsort(scores)
argsort(scores) ==
  LET rank == [j \in 1..Len(scores) |-> AscRank(scores, j)]
  IN  [pos \in 1..Len(scores) |-> CHOOSE j \in 1..Len(scores) : rank[j] = pos]

\* seq[::-1]
Reverse(seq) == [pos \in 1..Len(seq) |-> seq[Len(seq) + 1 - pos]]

\* the window taken without reversing the order
TopIndicesAscending(scores) ==
  SubSeq(argsort(scores), 1, Min(PoolSize, Len(scores)))

\* the window taken after the first entry, as in [1:31]
TopIndicesSkipFirst(scores) ==
  SubSeq(Reverse(argsort(scores)), 2, Min(PoolSize + 1, Len(scores)))

\* np.argsort(scores)[::-1][:30]
TopIndices(scores) ==
  SubSeq(Reverse(argsort(scores)), 1, Min(PoolSize, Len(scores)))

\* sum of scores[top_indices], the numerator of np.mean
RECURSIVE SumAt(_, _)
SumAt(scores, indices) ==
  IF indices = <<>> THEN 0
  ELSE scores[Head(indices)] + SumAt(scores, Tail(indices))

\* score >= mean_score * 0.8, the mean being total / count
ClearsMean(score, total, count) ==
  score * MeanDen * count >= MeanNum * total

\* the threshold without its floor
AcceptsNoFloor(score, total, count) == ClearsMean(score, total, count)

\* scores[i] >= threshold, threshold = max(mean_score * 0.8, 0.12)
Accepts(score, total, count) ==
  ClearsMean(score, total, count) /\ score >= Floor

\* round(scores[i] * 100, 2): to the nearest 1/100 of a percent, halves to even
Round2Pct(score) ==
  LET q == score \div 10
      r == score % 10
  IN  IF r > 5 \/ (r = 5 /\ q % 2 = 1) THEN q + 1 ELSE q

\* the loop over top_indices from position k on
RECURSIVE Walk(_, _, _, _, _, _)
Walk(scores, top_indices, total, top_n, k, results) ==
  IF k > Len(top_indices) THEN results
  ELSE LET i == top_indices[k]
           appended ==
             IF Accepts(scores[i], total, Len(top_indices))
               THEN Append(results, [index |-> i, title |-> movies[i].title,
                                     score |-> Round2Pct(scores[i])])
               ELSE results
       IN  IF Len(appended) = top_n THEN appended
           ELSE Walk(scores, top_indices, total, top_n, k + 1, appended)

(* --------------------------- orchestrator ----------------------------- *)

NoCall ==
  [called |-> FALSE, movie_name |-> <<>>, top_n |-> 0, normalized |-> <<>>,
   fuzzy |-> FALSE, w |-> NotConsulted, p |-> NotConsulted, via |-> 0,
   matched |-> None, ranked |-> FALSE, idx |-> 0, scores |-> <<>>,
   top_indices |-> <<>>, total |-> 0, results |-> <<>>]

\* the part of robust_recommend after the title is resolved
Rank(call, matched, top_n) ==
  IF matched = None \/ matched = <<>> THEN call
  ELSE LET idx == FirstIndex(matched)
           scores == ZeroSelf(cosine_similarity(idx), idx)
           top_indices == TopIndices(scores)
           total == SumAt(scores, top_indices)
       IN  [call EXCEPT !.ranked = TRUE, !.idx = idx, !.scores = scores,
                        !.top_indices = top_indices, !.total = total,
                        !.results = Walk(scores, top_indices, total, top_n, 1, <<>>)]

\* the part of robust_recommend that resolves the title
Resolve(call, movie_name, top_n, w, p) ==
  IF InTitleList(movie_name)
    THEN Rank([call EXCEPT !.matched = movie_name], movie_name, top_n)
  ELSE LET m == smart_match_movie(movie_name, w, p)
       IN  Rank([call EXCEPT !.fuzzy = TRUE, !.w = m.w, !.p = m.p,
                             !.via = m.via, !.matched = m.matched],
                m.matched, top_n)

\* robust_recommend without the return on an empty name
robust_recommend_unguarded(raw, top_n, w, p) ==
  LET movie_name == normalize_text(raw)
      call == [NoCall EXCEPT !.called = TRUE, !.movie_name = raw,
                             !.top_n = top_n, !.normalized = movie_name]
  IN  Resolve(call, movie_name, top_n, w, p)

\* robust_recommend(movie_name, top_n): the record of the call, its return
\* value in `results`
robust_recommend(raw, top_n, w, p) ==
  LET movie_name == normalize_text(raw)
      call == [NoCall EXCEPT !.called = TRUE, !.movie_name = raw,
                             !.top_n = top_n, !.normalized = movie_name]
  IN  IF movie_name = <<>> THEN call
      ELSE Resolve(call, movie_name, top_n, w, p)

(* ------------------------ catalogs and vectors ------------------------ *)

Grid == {-20000, 0, 11996, 12000, 50004, 90000}

Letters == <<"a", "b", "c", "d", "e", "f">>

\* the title of entry i of a ranking catalog: two letters, the first a capital
\* where the alphabet has it
TitleOf(i) ==
  LET first == Letters[((i - 1) \div 6) + 1]
  IN  << (CASE first = "a" -> "A" [] first = "b" -> "B" [] OTHER -> first),
         Letters[((i - 1) % 6) + 1] >>

RankCatalog(n) == [i \in 1..n |-> [title |-> TitleOf(i), genres |-> {}]]

\* similarity of entry i to entry j: 1 to itself, r[j] to another entry
RowMatrix(n, r) ==
  [i \in 1..n |-> [j \in 1..n |-> IF i = j THEN One ELSE r[j]]]

\* the scenario of five other entries scoring 0.9, 0.85, 0.5, 0.4, 0.1 against
\* entry 1
ScenarioBScores == <<One, 90000, 85000, 50000, 40000, 10000>>

ScenarioBVectors ==
  [i \in 1..6 |-> [j \in 1..6 |->
     IF i = j THEN One
     ELSE IF i = 1 THEN ScenarioBScores[j]
     ELSE IF j = 1 THEN ScenarioBScores[i]
     ELSE 10000]]

\* a catalog larger than the window: a third of the entries are equally close
\* to all others, a third are far from all but three, a third have graded scores
BigVectors ==
  [i \in 1..BigN |-> [j \in 1..BigN |->
     IF i = j THEN One
     ELSE IF i % 3 = 0 THEN 50004
     ELSE IF i % 3 = 1 THEN (IF j <= 3 THEN 90000 ELSE -20000)
     ELSE 3000 * j]]

TitlePool ==
  { [title |-> <<"A", "b">>, genres |-> {"Action"}],
    [title |-> <<"a", "b">>, genres |-> {"Drama"}],
    [title |-> <<"a", "7">>, genres |-> {"Action", "Drama"}],
    [title |-> <<"7">>, genres |-> {}],
    [title |-> <<"b", " ">>, genres |-> {"Drama"}] }

SearchCatalogs == UNION {[1..n -> TitlePool] : n \in 0..MaxTitles}

\* every entry scores 0.9 against every other
SearchVectors(n) == RowMatrix(n, [j \in 1..n |-> 90000])

ExtraTexts == { <<>>, <<" ">>, <<"!", "7">>, <<"b", "a">>, <<"a">> }

\* what the user can type: a catalog title verbatim, or another text
Texts == {movies[i].title : i \in 1..Len(movies)} \cup ExtraTexts

\* a text that is no title of a ranking catalog
Misspelt == <<"a">>

TopNs == (0..MaxTopN) \cup {DefaultTopN}

\* ["All Genres"] + sorted({g for sub in movies["genres"] for g in sub})
all_genres ==
  {"All Genres"} \cup UNION {movies[i].genres : i \in 1..Len(movies)}

(* ----------------------------- the page ------------------------------- *)

InitSession ==
  /\ search_input = <<>>
  /\ selected_genre = "All Genres"
  /\ ret = NoCall
  /\ last = "init"

\* the session state the reset handler writes
ResetState == [search_input |-> <<>>, selected_genre |-> "All Genres"]

\* the session state the search handler writes
SearchState(text) == [search_input |-> text, selected_genre |-> "All Genres"]

\* the genre handler leaving the search text as it was
GenreStateKeepsText(genre) ==
  [search_input |-> search_input, selected_genre |-> genre]

\* the session state the genre handler writes
GenreState(genre) == [search_input |-> <<>>, selected_genre |-> genre]

\* "Reset All": both fields to their initial values, then st.rerun()
ResetAll ==
  /\ search_input' = ResetState.search_input
  /\ selected_genre' = ResetState.selected_genre
  /\ ret' = NoCall
  /\ last' = "reset"
  /\ UNCHANGED <<movies, vectors, fuzz, request>>

\* "Search Recommendations": the typed text is stored and recommended on
SearchRecommendations ==
  \E text \in Texts :
    /\ search_input' = SearchState(text).search_input
    /\ selected_genre' = SearchState(text).selected_genre
    /\ ret' = robust_recommend(text, DefaultTopN, fuzz.w, fuzz.p)
    /\ last' = "search"
    /\ UNCHANGED <<movies, vectors, fuzz, request>>

\* "Recommend by Genre": the chosen genre is stored first; the sample drawn
\* and shown afterwards writes no state, whether or not it can be drawn
RecommendByGenre ==
  \E genre \in all_genres :
    /\ search_input' = GenreState(genre).search_input
    /\ selected_genre' = GenreState(genre).selected_genre
    /\ ret' = NoCall
    /\ last' = "genre"
    /\ UNCHANGED <<movies, vectors, fuzz, request>>

\* the call robust_recommend(movie_name, top_n) with the requested arguments
Recommend ==
  /\ ret' = robust_recommend(request.movie_name, request.top_n, fuzz.w, fuzz.p)
  /\ last' = "call"
  /\ UNCHANGED <<movies, vectors, fuzz, request, search_input, selected_genre>>

(* -------------------------- specifications ---------------------------- *)

\* the ranking catalogs: every row of Grid scores up to MaxCatalog entries,
\* the scenario catalog and the large catalog; the call asks for the
\* recommendations of a catalog title, verbatim, or of a misspelt name that
\* the first fuzzy pass resolves to an entry, with any top_n
InitRank ==
  /\ \/ \E n \in 1..MaxCatalog : \E r \in [1..n -> Grid] :
          /\ movies = RankCatalog(n)
          /\ vectors = RowMatrix(n, r)
     \/ /\ movies = RankCatalog(6)
        /\ vectors = ScenarioBVectors
     \/ /\ movies = RankCatalog(BigN)
        /\ vectors = BigVectors
  /\ \E i \in 1..Len(movies), top_n \in TopNs :
       \/ /\ request = [movie_name |-> movies[i].title, top_n |-> top_n]
          /\ fuzz = [w |-> NoMatch, p |-> NoMatch]
       \/ /\ request = [movie_name |-> Misspelt, top_n |-> top_n]
          /\ fuzz = [w |-> [index |-> i, score |-> WRatioGate], p |-> NoMatch]
  /\ InitSession

NextRank == Recommend

Spec == InitRank /\ [][NextRank]_vars

\* the search catalogs: every catalog of up to MaxTitles titles of TitlePool
InitSearch ==
  /\ movies \in SearchCatalogs
  /\ vectors = SearchVectors(Len(movies))
  /\ fuzz \in FuzzAnswers
  /\ request = [movie_name |-> <<>>, top_n |-> DefaultTopN]
  /\ InitSession

NextSearch == SearchRecommendations \/ RecommendByGenre \/ ResetAll

SpecSearch == InitSearch /\ [][NextSearch]_vars

(* ------------------------------ claims -------------------------------- *)

\* the scores of the pool of the latest call
PoolScores == {ret.scores[ret.top_indices[k]] : k \in 1..Len(ret.top_indices)}

\* the number of pool entries at or above the adaptive threshold
NumClearing ==
  Cardinality({k \in 1..Len(ret.top_indices) :
                 /\ ret.scores[ret.top_indices[k]] >= Floor
                 /\ ret.scores[ret.top_indices[k]] * 5 * Len(ret.top_indices)
                      >= 4 * ret.total})

\* the latest call is the scenario: entry 1 of the six-entry catalog, whose five
\* other entries score 0.9, 0.85, 0.5, 0.4, 0.1 against it, with the default top_n
ScenarioBCall ==
  /\ ret.ranked
  /\ vectors = ScenarioBVectors
  /\ ret.idx = 1
  /\ ret.top_n = 10

\* C1: for a query that resolves to an entry and top_n >= 0, the returned
\* list is no longer than top_n and no longer than the number of pool entries
\* at or above the threshold.
C1_LengthBounded ==
  (ret.ranked /\ ret.top_n >= 0) =>
    /\ Len(ret.results) <= ret.top_n
    /\ Len(ret.results) <= NumClearing

\* C2 as stated: the pool never contains the resolved entry and has
\* min(30, n - 1) entries; in the scenario exactly the entries scoring 0.9 and
\* 0.85 are returned.
C2_PoolExcludesSelf ==
  ret.ranked =>
    /\ \A k \in 1..Len(ret.top_indices) : ret.top_indices[k] # ret.idx
    /\ Len(ret.top_indices) = Min(30, Len(movies) - 1)
    /\ ScenarioBCall =>
         /\ Len(ret.results) = 2
         /\ ret.results[1].index = 2 /\ ret.results[1].score = 9000
         /\ ret.results[2].index = 3 /\ ret.results[2].score = 8500

\* C2 as amended: the pool is the min(30, n) highest scores after the self
\* score is set to zero; with n <= 30 it has n entries, the resolved entry
\* among them, and the sum the mean is taken of counts its zero.  In the
\* scenario the pool has six scores summing to 2.75 (mean 2.75/6, threshold
\* 0.8 of it) and the four entries scoring 0.9, 0.85, 0.5, 0.4 are returned.
C2_PoolIsWindow ==
  ret.ranked =>
    /\ Len(ret.top_indices) = Min(30, Len(movies))
    /\ Len(movies) <= 30 =>
         /\ \E k \in 1..Len(ret.top_indices) : ret.top_indices[k] = ret.idx
         /\ ret.scores[ret.idx] = 0
         /\ ret.total = SumAt(ret.scores, [j \in 1..Len(movies) |-> j])
    /\ ScenarioBCall =>
         /\ Len(ret.top_indices) = 6
         /\ ret.total = 275000
         /\ Len(ret.results) = 4
         /\ ret.results[1].index = 2 /\ ret.results[1].score = 9000
         /\ ret.results[2].index = 3 /\ ret.results[2].score = 8500
         /\ ret.results[3].index = 4 /\ ret.results[3].score = 5000
         /\ ret.results[4].index = 5 /\ ret.results[4].score = 4000

\* the scenario call has been made
C2_Witness == ScenarioBCall /\ Len(ret.results) > 2

\* C3: the entry at the resolved index is never in the returned list, and a
\* catalog of one entry yields the empty list.
C3_NeverSelf ==
  ret.ranked =>
    /\ \A k \in 1..Len(ret.results) : ret.results[k].index # ret.idx
    /\ Len(movies) = 1 => ret.results = <<>>

\* a call that returned entries from a pool holding the resolved entry
C3_Witness ==
  /\ ret.ranked
  /\ ret.results # <<>>
  /\ \E k \in 1..Len(ret.top_indices) : ret.top_indices[k] = ret.idx

\* C4: the returned list is in non-increasing order of score.
C4_NonIncreasing ==
  \A k \in 1..(Len(ret.results) - 1) :
    ret.results[k].score >= ret.results[k + 1].score

\* a call that returned entries of different scores
C4_Witness ==
  /\ Len(ret.results) >= 2
  /\ ret.results[1].score > ret.results[Len(ret.results)].score

\* C5: a raw input whose normalized form is empty yields the empty list at
\* once: neither the fuzzy resolver nor the ranker runs.
C5_EmptyInput ==
  (ret.called /\ normalize_text(ret.movie_name) = <<>>) =>
    /\ ret.results = <<>>
    /\ ~ret.fuzzy
    /\ ~ret.ranked
    /\ ret.matched = None

\* a search for a text of characters that normalize to nothing
C5_Witness ==
  /\ ret.called
  /\ ret.movie_name = <<"!", "7">>
  /\ ret.normalized = <<>>
  /\ fuzz.w.index >= 1 /\ fuzz.w.score >= 80

\* C6: a catalog title given verbatim resolves through the exact match: the
\* fuzzy resolver is not invoked and the call is resolved to the entry's
\* clean title.
C6_VerbatimTitleExact ==
  \A i \in 1..Len(movies) :
    (ret.called /\ ret.movie_name = movies[i].title) =>
      /\ ~ret.fuzzy
      /\ ret.matched = title_list[i]
      /\ ret.ranked

\* C7: the first pass's candidate is returned iff it scores 80 or more; only
\* otherwise is the second pass read, and its candidate returned iff it scores
\* 85 or more; otherwise nothing is returned; what is returned is a title of
\* title_list.
C7_TwoPassGates ==
  ret.fuzzy =>
    LET first == fuzz.w.index >= 1 /\ fuzz.w.score >= 80
        second == fuzz.p.index >= 1 /\ fuzz.p.score >= 85
    IN  /\ ret.via = 1 <=> first
        /\ ret.via = 1 => ret.matched = title_list[fuzz.w.index] /\ ret.p = NotConsulted
        /\ ret.via = 2 <=> ~first /\ second
        /\ ret.via = 2 => ret.matched = title_list[fuzz.p.index] /\ ret.p = fuzz.p
        /\ ret.via = 0 <=> ret.matched = None
        /\ ret.via \in {0, 1, 2}
        /\ ret.matched # None => InTitleList(ret.matched)

\* a call the second pass resolved after the first fell short of its gate
C7_Witness ==
  /\ ret.fuzzy
  /\ ret.via = 2
  /\ fuzz.w.index >= 1 /\ fuzz.w.score = 79
  /\ fuzz.p.score = 85

\* C8: the returned list is exactly the first min(top_n, k) entries of the
\* pool, k being the number of pool entries at or above the threshold
\* max(0.8 x mean, 0.12), each with its percentage, which is 12 or more.
C8_ExactPrefix ==
  ret.ranked =>
    /\ Len(ret.results) = Min(ret.top_n, NumClearing)
    /\ \A k \in 1..Len(ret.results) :
         /\ k <= Len(ret.top_indices)
         /\ ret.results[k].index = ret.top_indices[k]
         /\ ret.results[k].score >= 1200

\* C9: with top_n >= 1 a resolved call returns the empty list iff the highest
\* score of the pool is below 0.12.
C9_EmptyIffBelowFloor ==
  (ret.ranked /\ ret.top_n >= 1) =>
    (ret.results = <<>> <=> \A s \in PoolScores : s < 12000)

\* a call that returned nothing though the pool holds a positive score
C9_Witness ==
  /\ ret.ranked
  /\ ret.top_n >= 1
  /\ ret.results = <<>>
  /\ \E s \in PoolScores : s > 0

\* C10: the session never holds both a search text and a genre other than
\* "All Genres"; Search leaves the genre "All Genres", Genre leaves the search
\* text empty, Reset leaves both at their initial values.
C10_SessionExclusive ==
  /\ ~(search_input # <<>> /\ selected_genre # "All Genres")
  /\ last = "search" => selected_genre = "All Genres"
  /\ last = "genre" => search_input = <<>>
  /\ last = "reset" => search_input = <<>> /\ selected_genre = "All Genres"

\* a genre other than "All Genres" has been chosen
C10_Witness == last = "genre" /\ selected_genre = "Drama"

====
